---- MODULE Spec2Model ----
(***************************************************************************)
(* Admin panel of the portfolio site: the client-side pages                *)
(*   AdminSettings (account settings),                                     *)
(*   SkillsManager, CoursesManager, GalleryManager, CertificatesManager,   *)
(*   CareerManager, VideosManager (form-and-list managers),                *)
(*   MessagesPage (contact messages).                                      *)
(* One page is mounted at a time (variable page); each page's React state  *)
(* is a group of variables, each handler an action, each await a point     *)
(* where the handler is suspended and other handlers may run.              *)
(***************************************************************************)
EXTENDS Integers, Sequences, FiniteSets, TLC

VARIABLES
    page,                \* the mounted page component
    \* ---- AdminSettings
    formData,            \* useState: email, currentPassword, newPassword, confirmPassword
    loading,             \* useState(false)
    notification,        \* useState(null): {type, message} | null
    newPasswordUserEdit, \* DOM: the New Password value was last changed by a user edit
    settingsRequests,    \* PUT /api/admin/settings requests in flight
    settingsTask,        \* where handleSubmit is suspended, with the values its closure holds
    sessionEmail,        \* session.user.email (next-auth)
    \* ---- CareerManager: one row of the timeline
    durationArgs,        \* the item rendered: startDate, endDate, isCurrent
    today,               \* the local calendar date new Date() gives
    tzWest,              \* the local time zone is west of UTC
    durationText,        \* what calculateDuration returned for the row
    \* ---- MessagesPage
    messages,            \* useState<Message[]>([])
    filteredMessages,    \* useState<Message[]>([])
    msgLoading,          \* useState(true): loading
    selectedMessage,     \* useState<Message | null>(null)
    replyText,           \* useState('')
    sendingReply,        \* useState(false)
    filterStatus,        \* useState('all')
    searchQuery,         \* useState('')
    msgNotification,     \* useState(null): notification
    msgConfirm,          \* the id that the open confirm() box asks about, or 0
    msgOps,              \* the handlers suspended at an await, oldest first
    msgDb,               \* the server's messages: the status of each id, or "absent"
    \* ---- the six managers (the one that page names)
    items,               \* skills / courses / gallery / certificates / career / videos
    editing,             \* editingSkill / editingCourse / editingItem / editingVideo /
                         \* editingCertificate, or NoItem for null
    isEditMode,          \* CertificatesManager: useState(false)
    form,                \* the values of the form
    formDefaults,        \* the values that reset() without argument restores
    errors,              \* formState.errors: the fields that failed the last validation
    submitting,          \* uploading / isSubmitting
    isLoading,           \* SkillsManager, CoursesManager: useState(true)
    swal,                \* the SweetAlert dialog on screen
    ops,                 \* the requests in flight with what their handlers captured
    db                   \* the server's collection: the item of each id, or NoItem

settingsVars == <<formData, loading, notification, newPasswordUserEdit,
                  settingsRequests, settingsTask, sessionEmail>>

durationVars == <<durationArgs, today, tzWest, durationText>>

msgVars == <<messages, filteredMessages, msgLoading, selectedMessage, replyText,
             sendingReply, filterStatus, searchQuery, msgNotification, msgConfirm, msgOps,
             msgDb>>

mgrVars == <<items, editing, isEditMode, form, formDefaults, errors, submitting,
             isLoading, swal, ops, db>>

vars == <<page, settingsVars, durationVars, msgVars, mgrVars>>

\* what the handlers of a page leave alone: the state of the other pages
notSettings == <<durationVars, msgVars, mgrVars>>
notDuration == <<settingsVars, msgVars, mgrVars>>
notMessages == <<settingsVars, durationVars, mgrVars>>
notManagers == <<settingsVars, durationVars, msgVars>>

(***************************************************************************)
(* Bounds and values                                                       *)
(***************************************************************************)
\* longest password the user types
MaxPwLen == 7

\* the length handleSubmit asks of a new password
MinPasswordLength == 6

\* a string is a sequence of characters
Run(c, n) == [i \in 1..n |-> c]

\* the passwords the user types: every length up to MaxPwLen, and two different
\* passwords of the same acceptable length
Passwords == {Run("a", n) : n \in 0..MaxPwLen} \cup {Run("b", MinPasswordLength)}

CurrentPasswords == {<<>>, <<"a">>}

Emails == {"", "a@x.co", "b@x.co"}

\* the value JSON.stringify leaves out
Undefined == <<"undefined">>

\* notification === null
NoNotification == [type |-> "none", message |-> ""]

Notify(type, message) == [type |-> type, message |-> message]

\* handleSubmit is not running
NoTask == [pc |-> "idle", email |-> ""]

InitialFormData ==
    [email |-> "", currentPassword |-> <<>>, newPassword |-> <<>>, confirmPassword |-> <<>>]

(***************************************************************************)
(* AdminSettings                                                           *)
(***************************************************************************)
InitSettings ==
    /\ sessionEmail = "a@x.co"
    \* the mount effect copies session.user.email into the form
    /\ formData = [InitialFormData EXCEPT !.email = sessionEmail]
    /\ loading = FALSE
    /\ notification = NoNotification
    /\ newPasswordUserEdit = FALSE
    /\ settingsRequests = <<>>
    /\ settingsTask = NoTask

\* the state of the settings variables while another page is mounted
SettingsUnmounted ==
    /\ sessionEmail = "a@x.co"
    /\ formData = InitialFormData
    /\ loading = FALSE
    /\ notification = NoNotification
    /\ newPasswordUserEdit = FALSE
    /\ settingsRequests = <<>>
    /\ settingsTask = NoTask

FieldValues(field) ==
    CASE field = "email" -> Emails
      [] field = "currentPassword" -> CurrentPasswords
      [] OTHER -> Passwords

\* handleChange(field, value); byUser tells a keystroke from a value set by script
\* (a password manager, an automated fill), which the minLength check ignores
handleChange(field, value, byUser) ==
    /\ page = "settings"
    \* the Confirm New Password input is rendered only while newPassword is non-empty
    /\ field = "confirmPassword" => formData.newPassword # <<>>
    /\ field # "newPassword" => byUser
    /\ formData' = [formData EXCEPT ![field] = value]
    /\ notification' = NoNotification
    /\ newPasswordUserEdit' = IF field = "newPassword" THEN byUser ELSE newPasswordUserEdit
    /\ UNCHANGED <<page, loading, settingsRequests, settingsTask, sessionEmail, notSettings>>

\* a form whose Current Password input lacks the required attribute
SubmitEventFires_CurrentOptional ==
    /\ ~loading
    /\ formData.email # ""
    /\ ~(/\ newPasswordUserEdit
         /\ formData.newPassword # <<>>
         /\ Len(formData.newPassword) < MinPasswordLength)
    /\ formData.newPassword # <<>> => formData.confirmPassword # <<>>

\* the browser's constraint validation of the form (required on email, on
\* currentPassword and on the rendered confirmPassword; minLength on a newPassword
\* typed by the user) and the submit button disabled while loading: the submit
\* event reaches handleSubmit only when this holds
SubmitEventFires ==
    /\ ~loading
    /\ formData.email # ""
    /\ formData.currentPassword # <<>>
    /\ ~(/\ newPasswordUserEdit
         /\ formData.newPassword # <<>>
         /\ Len(formData.newPassword) < MinPasswordLength)
    /\ formData.newPassword # <<>> => formData.confirmPassword # <<>>

\* a mismatch that compares the lengths only
PasswordMismatch_LengthOnly ==
    /\ formData.newPassword # <<>>
    /\ Len(formData.newPassword) # Len(formData.confirmPassword)

\* line 41
PasswordMismatch ==
    formData.newPassword # <<>> /\ formData.newPassword # formData.confirmPassword

\* line 47
PasswordTooShort ==
    formData.newPassword # <<>> /\ Len(formData.newPassword) < MinPasswordLength

\* the two checks in the other order
ValidationError_LengthFirst ==
    IF PasswordTooShort THEN "New password must be at least 6 characters long"
    ELSE IF PasswordMismatch THEN "New passwords do not match"
    ELSE ""

\* the validation of lines 40-51: the message of the first check that fails, "" if none
ValidationError ==
    IF PasswordMismatch THEN "New passwords do not match"
    ELSE IF PasswordTooShort THEN "New password must be at least 6 characters long"
    ELSE ""

\* a body that sends the field as it is
SettingsBody_SendsField ==
    [email |-> formData.email,
     currentPassword |-> formData.currentPassword,
     newPassword |-> formData.newPassword]

\* the JSON body of the PUT: newPassword: formData.newPassword || undefined
SettingsBody ==
    [email |-> formData.email,
     currentPassword |-> formData.currentPassword,
     newPassword |-> IF formData.newPassword # <<>> THEN formData.newPassword ELSE Undefined]

SettingsRequest ==
    [method |-> "PUT", url |-> "/api/admin/settings", body |-> SettingsBody]

\* handleSubmit up to its first await
handleSubmit ==
    /\ page = "settings"
    /\ SubmitEventFires
    /\ IF ValidationError # ""
       THEN /\ notification' = Notify("error", ValidationError)
            /\ loading' = FALSE
            /\ UNCHANGED <<settingsRequests, settingsTask>>
       ELSE /\ notification' = NoNotification
            /\ loading' = TRUE
            /\ settingsRequests' = Append(settingsRequests, SettingsRequest)
            /\ settingsTask' = [pc |-> "fetch", email |-> formData.email]
    /\ UNCHANGED <<page, formData, newPasswordUserEdit, sessionEmail, notSettings>>

\* what the server answers, or the fetch failing
SettingsResponses == {"ok", "notOkWithError", "notOk", "throws"}

ErrorMessage(resp) ==
    CASE resp = "notOkWithError" -> "Current password is incorrect"
      [] resp = "notOk" -> "Something went wrong"
      [] OTHER -> "Failed to fetch"

\* handleSubmit resumed by the response: lines 66-90
SettingsResponse(resp) ==
    /\ page = "settings"
    /\ settingsTask.pc = "fetch"
    /\ settingsRequests # <<>>
    /\ settingsRequests' = Tail(settingsRequests)
    /\ IF resp = "ok"
       THEN /\ notification' = Notify("success", "Profile updated successfully!")
            /\ formData' = [formData EXCEPT !.currentPassword = <<>>,
                                            !.newPassword = <<>>,
                                            !.confirmPassword = <<>>]
            /\ newPasswordUserEdit' = FALSE
            /\ IF settingsTask.email # sessionEmail
               THEN /\ settingsTask' = [settingsTask EXCEPT !.pc = "update"]
                    /\ UNCHANGED loading
               ELSE /\ settingsTask' = NoTask
                    /\ loading' = FALSE
       ELSE /\ notification' = Notify("error", ErrorMessage(resp))
            /\ loading' = FALSE
            /\ settingsTask' = NoTask
            /\ UNCHANGED <<formData, newPasswordUserEdit>>
    /\ UNCHANGED <<page, sessionEmail, notSettings>>

\* handleSubmit resumed by update({email}): lines 82-89, and the effect of lines 22-28
\* that copies the new session email into the form
SessionUpdated(ok) ==
    /\ page = "settings"
    /\ settingsTask.pc = "update"
    /\ IF ok
       THEN /\ sessionEmail' = settingsTask.email
            /\ formData' = [formData EXCEPT !.email = settingsTask.email]
            /\ UNCHANGED notification
       ELSE /\ notification' = Notify("error", "Failed to fetch")
            /\ UNCHANGED <<sessionEmail, formData>>
    /\ loading' = FALSE
    /\ settingsTask' = NoTask
    /\ UNCHANGED <<page, newPasswordUserEdit, settingsRequests, notSettings>>

NextSettings ==
    \/ \E field \in {"email", "currentPassword", "newPassword", "confirmPassword"} :
         \E value \in FieldValues(field), byUser \in BOOLEAN :
            handleChange(field, value, byUser)
    \/ handleSubmit
    \/ \E resp \in SettingsResponses : SettingsResponse(resp)
    \/ \E ok \in BOOLEAN : SessionUpdated(ok)

(***************************************************************************)
(* AdminSettings: the password strength indicator (lines 310-327)          *)
(***************************************************************************)
\* the longest new password typed when the indicator is looked at
MaxTypedLen == 13

\* the lengths from which the password counts as medium and as strong, and the length
\* at which the bar is full
MediumLength == 6
StrongLength == 8
FullBarLength == 12

TypedPasswords == {Run("a", n) : n \in 0..MaxTypedLen}

\* the class of the bar
StrengthColour(length) ==
    IF length >= StrongLength THEN "bg-green-500"
    ELSE IF length >= MediumLength THEN "bg-yellow-500"
    ELSE "bg-red-500"

\* a label that calls five characters medium
StrengthLabel_MediumFromFive(length) ==
    IF length >= StrongLength THEN "Strong password"
    ELSE IF length >= MediumLength - 1 THEN "Medium strength"
    ELSE "Weak password"

\* the text under the bar
StrengthLabel(length) ==
    IF length >= StrongLength THEN "Strong password"
    ELSE IF length >= MediumLength THEN "Medium strength"
    ELSE "Weak password"

\* Math.min((length / 12) * 100, 100), as a fraction: the numerator over FullBarLength
StrengthWidth(length) ==
    IF length * 100 < 100 * FullBarLength THEN length * 100 ELSE 100 * FullBarLength

\* what the page renders of the indicator for a new password
StrengthIndicator(password) ==
    IF password # <<>>
    THEN [shown |-> TRUE, colour |-> StrengthColour(Len(password)),
          label |-> StrengthLabel(Len(password)), width |-> StrengthWidth(Len(password))]
    ELSE [shown |-> FALSE, colour |-> "", label |-> "", width |-> 0]

\* the values typed into a field when the indicator is looked at
TypedValues(field) ==
    IF field \in {"newPassword", "confirmPassword"} THEN TypedPasswords
    ELSE FieldValues(field)

\* the user types; nothing is submitted
NextTyping ==
    \E field \in {"email", "currentPassword", "newPassword", "confirmPassword"} :
       \E value \in TypedValues(field), byUser \in BOOLEAN :
          handleChange(field, value, byUser)

(***************************************************************************)
(* AdminSettings: properties                                               *)
(***************************************************************************)
\* the requests a step sends
NewSettingsRequests ==
    {settingsRequests'[i] : i \in (Len(settingsRequests) + 1)..Len(settingsRequests')}

\* C5: every PUT /api/admin/settings that carries a newPassword carries one of at
\* least 6 characters, equal to the confirmPassword field at the time of the submit
C5_NewPasswordValidated ==
    [][\A r \in NewSettingsRequests :
          r.body.newPassword # Undefined =>
             /\ r.method = "PUT" /\ r.url = "/api/admin/settings"
             /\ Len(r.body.newPassword) >= 6
             /\ r.body.newPassword = formData.confirmPassword]_vars

C5_Witness ==
    \E i \in DOMAIN settingsRequests : settingsRequests[i].body.newPassword # Undefined

\* C6: every PUT /api/admin/settings in flight carries a non-empty currentPassword
C6_CurrentPasswordSent ==
    \A i \in DOMAIN settingsRequests :
       /\ settingsRequests[i].method = "PUT"
       /\ settingsRequests[i].body.currentPassword # <<>>

C6_Witness ==
    /\ settingsRequests # <<>>
    /\ settingsRequests[1].body.currentPassword = <<"a">>
    /\ settingsRequests[1].body.email = "b@x.co"

\* C7: a submit with a non-empty newPassword that differs from confirmPassword ends
\* with the error 'New passwords do not match'; otherwise one with a non-empty
\* newPassword shorter than 6 ends with the error 'New password must be at least 6
\* characters long'; both send nothing, keep the four fields and leave loading false
C7_ValidationRejects ==
    [][handleSubmit =>
         LET new == formData.newPassword
             mismatch == new # <<>> /\ new # formData.confirmPassword
             short == new # <<>> /\ Len(new) < 6
             rejected(msg) == /\ notification' = [type |-> "error", message |-> msg]
                              /\ settingsRequests' = settingsRequests
                              /\ formData' = formData
                              /\ loading' = FALSE
         IN /\ mismatch => rejected("New passwords do not match")
            /\ (~mismatch /\ short) =>
                  rejected("New password must be at least 6 characters long")]_vars

C7_Witness ==
    /\ notification = Notify("error", "New password must be at least 6 characters long")
    /\ formData.newPassword = formData.confirmPassword
    /\ ~loading

\* the case of precedence: a short password that also differs from its confirmation
C7_WitnessPrecedence ==
    /\ notification = Notify("error", "New passwords do not match")
    /\ formData.newPassword # <<>>
    /\ Len(formData.newPassword) < 6

\* C8: a submit with an empty newPassword is not rejected by the password checks and
\* sends a body with email and currentPassword and no newPassword, whatever
\* confirmPassword holds
C8_BlankKeepsPassword ==
    [][(handleSubmit /\ formData.newPassword = <<>>) =>
         /\ Len(settingsRequests') = Len(settingsRequests) + 1
         /\ \A r \in NewSettingsRequests :
               /\ r.method = "PUT" /\ r.url = "/api/admin/settings"
               /\ DOMAIN r.body = {"email", "currentPassword", "newPassword"}
               /\ r.body.email = formData.email
               /\ r.body.currentPassword = formData.currentPassword
               /\ r.body.newPassword = Undefined
         /\ notification' = NoNotification]_vars

C8_Witness ==
    /\ settingsRequests # <<>>
    /\ settingsRequests[1].body.newPassword = Undefined
    /\ formData.newPassword = <<>>
    /\ formData.confirmPassword # <<>>

(***************************************************************************)
(* CareerManager: calculateDuration                                        *)
(***************************************************************************)
\* first year of the dates entered, and how many years after it they reach
FirstYear == 2023
YearSpan == 2

\* a date string 'YYYY-MM-DD', as <input type="date"> gives it
DateStrings ==
    [y : FirstYear..(FirstYear + YearSpan), m : 1..12, d : {1, 15}]

\* the empty string, and the endDate that is left out
NoDateString == [y |-> 0, m |-> 0, d |-> 0]

\* a JavaScript number: an integer or NaN
NaN == [nan |-> TRUE, v |-> 0]
Num(i) == [nan |-> FALSE, v |-> i]
JsSub(a, b) == IF a.nan \/ b.nan THEN NaN ELSE Num(a.v - b.v)
JsAdd(a, b) == IF a.nan \/ b.nan THEN NaN ELSE Num(a.v + b.v)
JsMul(a, b) == IF a.nan \/ b.nan THEN NaN ELSE Num(a.v * b.v)
JsLess(a, b) == ~a.nan /\ ~b.nan /\ a.v < b.v
JsStrictEq(a, b) == ~a.nan /\ ~b.nan /\ a.v = b.v
\* Math.floor(a / k) and a % k, for a >= 0 and k > 0
JsFloorDiv(a, k) == IF a.nan THEN NaN ELSE Num(a.v \div k)
JsMod(a, k) == IF a.nan THEN NaN ELSE Num(a.v % k)

IsLeapYear(y) == y % 4 = 0 /\ (y % 100 # 0 \/ y % 400 = 0)

DaysInMonth(y, m) ==
    IF m = 2 THEN (IF IsLeapYear(y) THEN 29 ELSE 28)
    ELSE IF m \in {4, 6, 9, 11} THEN 30 ELSE 31

\* the calendar day before a date
DayBefore(s) ==
    IF s.d > 1 THEN [s EXCEPT !.d = s.d - 1]
    ELSE IF s.m > 1 THEN [y |-> s.y, m |-> s.m - 1, d |-> DaysInMonth(s.y, s.m - 1)]
    ELSE [y |-> s.y - 1, m |-> 12, d |-> 31]

InvalidDate == [valid |-> FALSE, y |-> 0, month |-> 0, d |-> 0]

\* new Date(s) as its local-time getters show it: a date-only string is midnight
\* UTC, which west of UTC is still the evening before; '' is an Invalid Date.
\* month is 0-based, as getMonth() is
NewDate(s) ==
    IF s = NoDateString THEN InvalidDate
    ELSE LET l == IF tzWest THEN DayBefore(s) ELSE s
         IN [valid |-> TRUE, y |-> l.y, month |-> l.m - 1, d |-> l.d]

\* new Date()
DateNow == [valid |-> TRUE, y |-> today.y, month |-> today.m - 1, d |-> today.d]

getFullYear(date) == IF date.valid THEN Num(date.y) ELSE NaN
getMonth(date) == IF date.valid THEN Num(date.month) ELSE NaN

\* a plural from 1 on
Plural_FromOne(n) == IF JsLess(Num(0), n) THEN "s" ELSE ""

\* `${n > 1 ? 's' : ''}`
Plural(n) == IF JsLess(Num(1), n) THEN "s" ELSE ""

\* parts.join(' ')
RECURSIVE Join(_)
Join(parts) ==
    IF parts = <<>> THEN ""
    ELSE IF Len(parts) = 1 THEN parts[1]
    ELSE parts[1] \o " " \o Join(Tail(parts))

\* `${n}` of a number
NumToString(n) == IF n.nan THEN "NaN" ELSE ToString(n.v)

calculateDuration(startDate, endDate, isCurrent) ==
    LET start == NewDate(startDate)
        end == IF isCurrent THEN DateNow ELSE NewDate(endDate)
        years == JsSub(getFullYear(end), getFullYear(start))
        months == JsSub(getMonth(end), getMonth(start))
        total == JsAdd(JsMul(years, Num(12)), months)
        totalMonths == IF JsLess(total, Num(0)) THEN Num(0) ELSE total
        yearsPart == JsFloorDiv(totalMonths, 12)
        monthsPart == JsMod(totalMonths, 12)
        yrs == IF JsLess(Num(0), yearsPart)
               THEN <<NumToString(yearsPart) \o " yr" \o Plural(yearsPart)>> ELSE <<>>
        mos == IF JsLess(Num(0), monthsPart)
               THEN <<NumToString(monthsPart) \o " mo" \o Plural(monthsPart)>> ELSE <<>>
    IN IF JsStrictEq(yearsPart, Num(0)) /\ JsStrictEq(monthsPart, Num(0))
       THEN "Less than 1 month"
       ELSE Join(yrs \o mos)

\* the row has not been rendered
NotRendered == "(not rendered)"

\* the items a row can show: a start date, an end date or none, the current flag
DurationInputs ==
    [startDate : DateStrings, endDate : DateStrings \cup {NoDateString},
     isCurrent : BOOLEAN]

Todays == {[y |-> FirstYear + YearSpan, m |-> 3, d |-> 1],
           [y |-> FirstYear + YearSpan, m |-> 12, d |-> 15]}

InitDuration ==
    /\ durationArgs \in DurationInputs
    /\ today \in Todays
    /\ tzWest \in BOOLEAN
    /\ durationText = NotRendered

DurationUnmounted ==
    /\ durationArgs = [startDate |-> NoDateString, endDate |-> NoDateString,
                       isCurrent |-> FALSE]
    /\ today = [y |-> FirstYear, m |-> 1, d |-> 1]
    /\ tzWest = FALSE
    /\ durationText = NotRendered

\* the timeline row: calculateDuration(item.startDate, item.endDate, item.isCurrent)
RenderDuration ==
    /\ page = "careerTimeline"
    /\ durationText = NotRendered
    /\ durationText' = calculateDuration(durationArgs.startDate, durationArgs.endDate,
                                         durationArgs.isCurrent)
    /\ UNCHANGED <<page, durationArgs, today, tzWest, notDuration>>

NextDuration == RenderDuration

MaxMessages == 2
MaxQueryLen == 2

\* the handlers of a page suspended at an await at once
MaxInFlight == 1

MsgIds == 1..MaxMessages

\* the texts of message id: its name, email and message
MsgName(id) == IF id = 1 THEN <<"A", "b">> ELSE <<"B">>
MsgEmail(id) == IF id = 1 THEN <<"a">> ELSE <<"b">>
MsgText(id) == IF id = 1 THEN <<"a", " ", "b">> ELSE <<"B", "b">>

\* a Message as GET /api/messages returns it; createdAt grows with the id
Message(id, status) ==
    [_id |-> id, name |-> MsgName(id), email |-> MsgEmail(id), message |-> MsgText(id),
     status |-> status, createdAt |-> id]

\* selectedMessage === null, and a find() that found nothing
NoMessage ==
    [_id |-> 0, name |-> <<>>, email |-> <<>>, message |-> <<>>, status |-> "none",
     createdAt |-> 0]

QueryChars == {"B", " "}

\* the texts typed into the search box
Queries == UNION {[1..n -> QueryChars] : n \in 0..MaxQueryLen}

\* the texts typed into the reply box: nothing, a blank, a reply, a reply after a blank
ReplyTexts == {<<>>, <<" ">>, <<"o", "k">>, <<" ", "o">>}

FilterKeys == {"all", "new", "read", "replied"}

LowerChar(c) == CASE c = "A" -> "a" [] c = "B" -> "b" [] OTHER -> c

\* String.prototype.toLowerCase
toLowerCase(str) == [i \in 1..Len(str) |-> LowerChar(str[i])]

\* String.prototype.includes
includes(str, q) ==
    \E i \in 0..(Len(str) - Len(q)) : SubSeq(str, i + 1, i + Len(q)) = q

\* String.prototype.trim
RECURSIVE trim(_)
trim(str) ==
    IF str = <<>> THEN <<>>
    ELSE IF Head(str) = " " THEN trim(Tail(str))
    ELSE IF str[Len(str)] = " " THEN trim(SubSeq(str, 1, Len(str) - 1))
    ELSE str

\* a search that matches the trimmed text
SearchMatches_Trimmed(msg, query) ==
    LET q == toLowerCase(trim(query))
    IN \/ includes(toLowerCase(msg.name), q)
       \/ includes(toLowerCase(msg.email), q)
       \/ includes(toLowerCase(msg.message), q)

\* lines 1150-1155
SearchMatches(msg, query) ==
    LET q == toLowerCase(query)
    IN \/ includes(toLowerCase(msg.name), q)
       \/ includes(toLowerCase(msg.email), q)
       \/ includes(toLowerCase(msg.message), q)

\* filterMessages, as a function of the state it reads
filterMessages(msgs, status, query) ==
    LET StatusOk(m) == m.status = status
        byStatus == IF status # "all" THEN SelectSeq(msgs, StatusOk) ELSE msgs
        QueryOk(m) == SearchMatches(m, query)
    IN IF trim(query) # <<>> THEN SelectSeq(byStatus, QueryOk) ELSE byStatus

\* Array.prototype.sort with (a, b) => getTime(b.createdAt) - getTime(a.createdAt):
\* a stable sort, newest first
RECURSIVE InsertByCreatedAt(_, _)
InsertByCreatedAt(m, sorted) ==
    IF sorted = <<>> THEN <<m>>
    ELSE IF Head(sorted).createdAt - m.createdAt >= 0
         THEN <<Head(sorted)>> \o InsertByCreatedAt(m, Tail(sorted))
         ELSE <<m>> \o sorted

RECURSIVE SortNewestFirst(_)
SortNewestFirst(data) ==
    IF data = <<>> THEN <<>>
    ELSE InsertByCreatedAt(Head(data), SortNewestFirst(Tail(data)))

\* the lists a GET /api/messages may return: the stored messages in some order
RECURSIVE Orders(_)
Orders(ids) ==
    IF ids = {} THEN {<<>>}
    ELSE UNION {{<<Message(id, msgDb[id])>> \o rest : rest \in Orders(ids \ {id})} :
                 id \in ids}

StoredIds == {id \in MsgIds : msgDb[id] # "absent"}

\* no handler: the filler of the fields an operation does not use
NoOp == [kind |-> "none", id |-> 0, stage |-> "none", reply |-> <<>>, found |-> NoMessage]

\* fetchMessages called on its own, suspended at its fetch
FetchOp == [NoOp EXCEPT !.kind = "fetch", !.stage = "get"]

InitMessages ==
    /\ messages = <<>>
    /\ filteredMessages = <<>>
    /\ msgLoading = TRUE
    /\ selectedMessage = NoMessage
    /\ replyText = <<>>
    /\ sendingReply = FALSE
    /\ filterStatus = "all"
    /\ searchQuery = <<>>
    /\ msgNotification = NoNotification
    /\ msgConfirm = 0
    \* the mount effect has called fetchMessages
    /\ msgOps = <<FetchOp>>
    /\ msgDb = [id \in MsgIds |-> "new"]

MessagesUnmounted ==
    /\ messages = <<>>
    /\ filteredMessages = <<>>
    /\ msgLoading = TRUE
    /\ selectedMessage = NoMessage
    /\ replyText = <<>>
    /\ sendingReply = FALSE
    /\ filterStatus = "all"
    /\ searchQuery = <<>>
    /\ msgNotification = NoNotification
    /\ msgConfirm = 0
    /\ msgOps = <<>>
    /\ msgDb = [id \in MsgIds |-> "absent"]

\* the page runs: no confirm() box blocks its thread
MessagesRuns == page = "messages" /\ msgConfirm = 0

\* the page is rendered (not the spinner of line 1275) and no modal covers the list
ListUsable == MessagesRuns /\ ~msgLoading /\ selectedMessage = NoMessage

\* the page is rendered and the modal of line 1587 is open
ModalOpen == MessagesRuns /\ ~msgLoading /\ selectedMessage # NoMessage

Remove(seq, i) == SubSeq(seq, 1, i - 1) \o SubSeq(seq, i + 1, Len(seq))

\* messages.find(m => m._id === messageId)
FindMessage(msgs, id) ==
    IF \E i \in DOMAIN msgs : msgs[i]._id = id
    THEN msgs[CHOOSE i \in DOMAIN msgs :
                 msgs[i]._id = id /\ \A j \in 1..(i - 1) : msgs[j]._id # id]
    ELSE NoMessage

\* setMessages / setFilterStatus / setSearchQuery, and the effect of line 1119 that
\* runs filterMessages after the render
Rerender(msgs, status, query) ==
    /\ messages' = msgs
    /\ filterStatus' = status
    /\ searchQuery' = query
    /\ filteredMessages' = filterMessages(msgs, status, query)

\* the search box (line 1445) and its clear button (line 1450)
setSearchQuery(q) ==
    /\ ListUsable
    /\ q # searchQuery
    /\ Rerender(messages, filterStatus, q)
    /\ UNCHANGED <<page, msgLoading, selectedMessage, replyText, sendingReply,
                   msgNotification, msgOps, msgDb, msgConfirm, notMessages>>

\* the filter buttons (line 1473)
setFilterStatus(key) ==
    /\ ListUsable
    /\ key # filterStatus
    /\ Rerender(messages, key, searchQuery)
    /\ UNCHANGED <<page, msgLoading, selectedMessage, replyText, sendingReply,
                   msgNotification, msgOps, msgDb, msgConfirm, notMessages>>

\* a click on a row of the list (line 1516)
selectMessage(i) ==
    /\ ListUsable
    /\ i \in DOMAIN filteredMessages
    /\ selectedMessage' = filteredMessages[i]
    /\ UNCHANGED <<page, messages, filteredMessages, msgLoading, replyText, sendingReply,
                   filterStatus, searchQuery, msgNotification, msgOps, msgDb,
                   msgConfirm, notMessages>>

\* the backdrop and the close button of the modal (lines 1593, 1614)
closeModal ==
    /\ ModalOpen
    /\ selectedMessage' = NoMessage
    /\ UNCHANGED <<page, messages, filteredMessages, msgLoading, replyText, sendingReply,
                   filterStatus, searchQuery, msgNotification, msgOps, msgDb,
                   msgConfirm, notMessages>>

\* the textarea of the reply form (lines 1670-1681)
setReplyText(text) ==
    /\ ModalOpen
    /\ selectedMessage.status # "replied"
    /\ text # replyText
    /\ replyText' = text
    /\ UNCHANGED <<page, messages, filteredMessages, msgLoading, selectedMessage,
                   sendingReply, filterStatus, searchQuery, msgNotification, msgOps,
                   msgDb, msgConfirm, notMessages>>

\* the ids whose Mark as Read button is on screen (lines 1550-1563, 1683-1693)
MarkAsReadButtons ==
    {m._id : m \in {filteredMessages[i] : i \in {j \in DOMAIN filteredMessages :
                        ListUsable /\ filteredMessages[j].status = "new"}}}
    \cup {id \in MsgIds : ModalOpen /\ selectedMessage._id = id
                          /\ selectedMessage.status = "new"}

\* the ids whose Delete button is on screen (lines 1564-1575, 1723-1731)
DeleteButtons ==
    {filteredMessages[i]._id : i \in {j \in DOMAIN filteredMessages : ListUsable}}
    \cup {id \in MsgIds : ModalOpen /\ selectedMessage._id = id}

\* handleMarkAsRead up to its await of the PUT
handleMarkAsRead(messageId, limit) ==
    /\ messageId \in MarkAsReadButtons
    /\ Len(msgOps) < limit
    /\ msgOps' = Append(msgOps, [NoOp EXCEPT !.kind = "markAsRead", !.id = messageId,
                                             !.stage = "put",
                                             !.found = FindMessage(messages, messageId)])
    /\ UNCHANGED <<page, messages, filteredMessages, msgLoading, selectedMessage,
                   replyText, sendingReply, filterStatus, searchQuery, msgNotification,
                   msgDb, msgConfirm, notMessages>>

\* a handleSendReply that takes any text that is not empty
handleSendReply_NotEmpty(limit) ==
    /\ ModalOpen
    /\ selectedMessage.status # "replied"
    /\ ~sendingReply
    /\ replyText # <<>>
    /\ Len(msgOps) < limit
    /\ sendingReply' = TRUE
    /\ msgOps' = Append(msgOps, [NoOp EXCEPT !.kind = "reply", !.id = selectedMessage._id,
                                             !.stage = "put", !.reply = replyText])
    /\ UNCHANGED <<page, messages, filteredMessages, msgLoading, selectedMessage,
                   replyText, filterStatus, searchQuery, msgNotification, msgDb,
                   msgConfirm, notMessages>>

\* handleSendReply up to its await of the PUT
handleSendReply(limit) ==
    /\ ModalOpen
    /\ selectedMessage.status # "replied"
    /\ ~sendingReply
    /\ trim(replyText) # <<>>
    /\ Len(msgOps) < limit
    /\ sendingReply' = TRUE
    /\ msgOps' = Append(msgOps, [NoOp EXCEPT !.kind = "reply", !.id = selectedMessage._id,
                                             !.stage = "put", !.reply = replyText])
    /\ UNCHANGED <<page, messages, filteredMessages, msgLoading, selectedMessage,
                   replyText, filterStatus, searchQuery, msgNotification, msgDb,
                   msgConfirm, notMessages>>

\* handleDeleteMessage up to its confirm() box (line 1219)
handleDeleteMessage(messageId, limit) ==
    /\ messageId \in DeleteButtons
    /\ Len(msgOps) < limit
    /\ msgConfirm' = messageId
    /\ UNCHANGED <<page, messages, filteredMessages, msgLoading, selectedMessage,
                   replyText, sendingReply, filterStatus, searchQuery, msgNotification,
                   msgOps, msgDb, notMessages>>

\* the user answers the confirm() box and handleDeleteMessage runs on: it returns when
\* the answer is no, and runs up to its await of the DELETE when it is yes
answerConfirm(confirmed) ==
    /\ page = "messages"
    /\ msgConfirm # 0
    /\ msgConfirm' = 0
    /\ msgOps' = IF ~confirmed THEN msgOps
                 ELSE Append(msgOps, [NoOp EXCEPT !.kind = "delete", !.id = msgConfirm,
                                                  !.stage = "delete"])
    /\ UNCHANGED <<page, messages, filteredMessages, msgLoading, selectedMessage,
                   replyText, sendingReply, filterStatus, searchQuery, msgNotification,
                   msgDb, notMessages>>

MsgResponses == {"ok", "notOk", "throws"}

\* what the server does with a PUT or DELETE it accepts
ServerApplies(op) ==
    [msgDb EXCEPT ![op.id] = CASE op.kind = "markAsRead" -> "read"
                               [] op.kind = "reply" -> "replied"
                               [] OTHER -> "absent"]

\* the notification a handler shows when its request was not ok; none in
\* handleMarkAsRead and handleDeleteMessage, whose if (response.ok) has no else
NotOkNotification_Always(kind) ==
    CASE kind = "reply" -> Notify("error", "Failed to send reply")
      [] kind = "markAsRead" -> Notify("error", "Failed to mark as read")
      [] OTHER -> Notify("error", "Failed to delete message")

NotOkNotification(kind) ==
    IF kind = "reply" THEN Notify("error", "Failed to send reply") ELSE msgNotification

\* the notification of a handler's catch block
CatchNotification(kind) ==
    CASE kind = "reply" -> Notify("error", "Failed to send reply")
      [] kind = "markAsRead" -> Notify("error", "Failed to mark as read")
      [] OTHER -> Notify("error", "Failed to delete message")

\* the PUT or DELETE of handler i is answered and the handler runs on: to the await of
\* fetchMessages when the response is ok, to its end otherwise
RequestCompletes(i, resp) ==
    /\ MessagesRuns
    /\ i \in DOMAIN msgOps
    /\ msgOps[i].stage \in {"put", "delete"}
    /\ resp \in MsgResponses
    /\ resp = "ok" => msgDb[msgOps[i].id] # "absent"
    /\ IF resp = "ok"
       THEN /\ msgDb' = ServerApplies(msgOps[i])
            /\ msgLoading' = TRUE
            /\ msgOps' = [msgOps EXCEPT ![i].stage = "get"]
            /\ UNCHANGED <<msgNotification, sendingReply>>
       ELSE /\ msgNotification' = IF resp = "notOk" THEN NotOkNotification(msgOps[i].kind)
                                  ELSE CatchNotification(msgOps[i].kind)
            /\ sendingReply' = IF msgOps[i].kind = "reply" THEN FALSE ELSE sendingReply
            /\ msgOps' = Remove(msgOps, i)
            /\ UNCHANGED <<msgDb, msgLoading>>
    /\ UNCHANGED <<page, messages, filteredMessages, selectedMessage, replyText,
                   filterStatus, searchQuery, msgConfirm, notMessages>>

\* the notification after fetchMessages returned to the handler that awaited it
AfterFetchNotification(kind, fetchThrew) ==
    CASE kind = "markAsRead" -> Notify("success", "Message marked as read")
      [] kind = "reply" -> Notify("success", "Reply sent successfully!")
      [] kind = "delete" -> Notify("success", "Message deleted successfully")
      [] OTHER -> IF fetchThrew THEN Notify("error", "Failed to fetch messages")
                  ELSE msgNotification

\* the selected message after fetchMessages returned to the handler that awaited it
AfterFetchSelected(op) ==
    CASE op.kind = "markAsRead" ->
           IF op.found # NoMessage THEN [op.found EXCEPT !.status = "read"]
           ELSE selectedMessage
      [] op.kind \in {"reply", "delete"} -> NoMessage
      [] OTHER -> selectedMessage

\* the GET /api/messages of handler i is answered, with data when the response is ok:
\* fetchMessages runs from line 1127 to its end, and the handler that awaited it runs
\* to its end
FetchCompletes(i, resp) ==
    /\ MessagesRuns
    /\ i \in DOMAIN msgOps
    /\ msgOps[i].stage = "get"
    /\ resp \in MsgResponses
    /\ \E data \in Orders(StoredIds) :
          Rerender(IF resp = "ok" THEN SortNewestFirst(data) ELSE messages,
                   filterStatus, searchQuery)
    /\ msgLoading' = FALSE
    /\ msgNotification' = AfterFetchNotification(msgOps[i].kind, resp = "throws")
    /\ selectedMessage' = AfterFetchSelected(msgOps[i])
    /\ replyText' = IF msgOps[i].kind = "reply" THEN <<>> ELSE replyText
    /\ sendingReply' = IF msgOps[i].kind = "reply" THEN FALSE ELSE sendingReply
    /\ msgOps' = Remove(msgOps, i)
    /\ UNCHANGED <<page, msgDb, msgConfirm, notMessages>>

\* the timer of showNotification (line 1163)
NotificationTimeout ==
    /\ MessagesRuns
    /\ msgNotification # NoNotification
    /\ msgNotification' = NoNotification
    /\ UNCHANGED <<page, messages, filteredMessages, msgLoading, selectedMessage,
                   replyText, sendingReply, filterStatus, searchQuery, msgOps, msgDb,
                   msgConfirm, notMessages>>

\* a step of the page: the user types search texts from queries and replies from
\* texts, picks filters from keys, and lets at most limit handlers run at once
MessagesStep(queries, keys, texts, limit) ==
    \/ \E q \in queries : setSearchQuery(q)
    \/ \E key \in keys : setFilterStatus(key)
    \/ \E i \in 1..MaxMessages : selectMessage(i)
    \/ closeModal
    \/ \E text \in texts : setReplyText(text)
    \/ \E id \in MsgIds : handleMarkAsRead(id, limit)
    \/ handleSendReply(limit)
    \/ \E id \in MsgIds : handleDeleteMessage(id, limit)
    \/ \E confirmed \in BOOLEAN : answerConfirm(confirmed)
    \/ \E i \in 1..limit, resp \in MsgResponses : RequestCompletes(i, resp)
    \/ \E i \in 1..limit, resp \in MsgResponses : FetchCompletes(i, resp)
    \/ NotificationTimeout

SomeQueries == {<<>>, <<"B">>}
SomeKeys == {"all", "new"}
SomeTexts == {<<>>, <<"o", "k">>}

\* the page as a part of the application
NextMessages == MessagesStep(SomeQueries, SomeKeys, SomeTexts, MaxInFlight)

\* the page with every search text and every filter
NextMessagesSearch == MessagesStep(Queries, FilterKeys, SomeTexts, MaxInFlight)

\* the page with every reply text
NextMessagesReply == MessagesStep(SomeQueries, SomeKeys, ReplyTexts, MaxInFlight)

\* C9: filteredMessages is exactly the messages, in their order, whose status equals
\* filterStatus (every status when filterStatus is 'all') and, when searchQuery is not
\* blank, whose name, email or message contains the lower-cased searchQuery without
\* regard to case; with filter 'all' and a blank query it equals messages.
C9_FilteredMessages ==
    LET Blank(text) == \A i \in DOMAIN text : text[i] = " "
        SameLetter(c, d) == c = d \/ {c, d} \in {{"a", "A"}, {"b", "B"}}
        Contains(text, query) ==
            \E off \in 0..(Len(text) - Len(query)) :
               \A k \in 1..Len(query) : SameLetter(text[off + k], query[k])
        Shown(m) ==
            /\ filterStatus = "all" \/ m.status = filterStatus
            /\ \/ Blank(searchQuery)
               \/ Contains(m.name, searchQuery)
               \/ Contains(m.email, searchQuery)
               \/ Contains(m.message, searchQuery)
    IN /\ filteredMessages = SelectSeq(messages, Shown)
       /\ (filterStatus = "all" /\ Blank(searchQuery)) => filteredMessages = messages

\* a search text that starts with a blank, matched as typed: two messages, one shown
C9_Witness ==
    /\ searchQuery = <<" ", "B">>
    /\ filterStatus = "new"
    /\ Len(messages) = 2
    /\ messages[1].status = "new"
    /\ messages[2].status = "new"
    /\ Len(filteredMessages) = 1

(***************************************************************************)
(* SkillsManager, CoursesManager, GalleryManager, CertificatesManager,     *)
(* CareerManager, VideosManager                                            *)
(***************************************************************************)
\* the items a collection holds at most
MaxItems == 2

ItemIds == 1..MaxItems

ManagerPages == {"skills", "courses", "gallery", "certificates", "career", "videos"}

\* the managers whose fetch sets isLoading and that render a spinner while it is set
LoadingPages == {"skills", "courses"}

\* the managers whose submit button is disabled by formState.isSubmitting of the form
\* library, which every reset of the form sets to false; the others keep a state of
\* their own (uploading, isSubmitting) that only onSubmit sets
FormStatePages == {"skills", "courses"}

\* null, and an id with no item
NoItem == [_id |-> -1]

\* an _id that is undefined (the _id? of the item types)
UndefinedId == 0

\* the collection URL has no id segment
NoId == -1

\* an input of type file with no file chosen
NoFile == ""

\* the values of the form when the page is mounted: defaultValues and empty inputs
BlankForm(p) ==
    CASE p = "skills" -> [name |-> "", icon |-> "FaCoffee", order |-> Num(0)]
      [] p = "courses" -> [name |-> "", description |-> ""]
      [] p = "gallery" -> [title |-> "", image |-> NoFile]
      [] p = "certificates" -> [title |-> "", date |-> "", image |-> NoFile]
      [] p = "career" -> [workplace |-> "", position |-> "", startDate |-> "",
                          endDate |-> "", isCurrent |-> FALSE]
      [] OTHER -> [title |-> "", description |-> "", url |-> "", embedType |-> "embed"]

\* what the user makes of the form: one filling that the schema accepts, and fillings
\* that break one rule each
FormInputs(p) ==
    CASE p = "skills" ->
           {[name |-> "Go", icon |-> "FaReact", order |-> o] : o \in {Num(1), Num(-1), NaN}}
           \cup {[name |-> "", icon |-> "FaReact", order |-> Num(1)]}
      [] p = "courses" ->
           {[name |-> n, description |-> d] : n \in {"", "TS"}, d \in {"", "intro"}}
      [] p = "gallery" ->
           {[title |-> t, image |-> f] : t \in {"", "Cup"}, f \in {NoFile, "cup.png"}}
      [] p = "certificates" ->
           {[title |-> t, date |-> "2024-01-15", image |-> f] :
               t \in {"", "Barista"}, f \in {NoFile, "cert.png"}}
      [] p = "career" ->
           {[workplace |-> "Acme", position |-> "Dev", startDate |-> "2023-01-15",
             endDate |-> "", isCurrent |-> TRUE],
            [workplace |-> "", position |-> "Dev", startDate |-> "2023-01-15",
             endDate |-> "", isCurrent |-> FALSE],
            [workplace |-> "Acme", position |-> "", startDate |-> "2023-01-15",
             endDate |-> "", isCurrent |-> FALSE],
            [workplace |-> "Acme", position |-> "Dev", startDate |-> "",
             endDate |-> "", isCurrent |-> FALSE]}
      [] OTHER ->
           {[title |-> "Latte", description |-> "art", url |-> "https://v.co/1",
             embedType |-> "link"],
            [title |-> "", description |-> "art", url |-> "https://v.co/1",
             embedType |-> "embed"],
            [title |-> "Latte", description |-> "", url |-> "https://v.co/1",
             embedType |-> "embed"],
            [title |-> "Latte", description |-> "art", url |-> "", embedType |-> "embed"],
            [title |-> "Latte", description |-> "art", url |-> "v.co",
             embedType |-> "embed"]}

\* what the user makes of the career form: a job with and without an end date, with
\* the box 'I currently work here' checked and not checked
CareerInputs(p) ==
    {[workplace |-> "Acme", position |-> "Dev", startDate |-> "2023-01-15",
      endDate |-> e, isCurrent |-> c] : e \in {"", "2023-06-15"}, c \in BOOLEAN}

\* new URL(s) succeeds
IsUrl(s) == s = "https://v.co/1"

\* the constraint validation of the browser lets the submit event fire: the order
\* input has min="0" (line 847), the url input has type="url" (part_002 line 833)
BrowserAccepts(p, f) ==
    CASE p = "skills" -> f.order.nan \/ f.order.v >= 0
      [] p = "videos" -> f.url = "" \/ IsUrl(f.url)
      [] OTHER -> TRUE

\* a gallery resolver that stays the one of the mount: addGallerySchema
SchemaErrors_ResolverOfMount(p, f, editingNow) ==
    CASE p = "skills" -> {k \in {"name", "icon"} : f[k] = ""}
                         \cup {k \in {"order"} : f[k].nan \/ f[k].v < 0}
      [] p = "courses" -> {k \in {"name", "description"} : f[k] = ""}
      [] p = "gallery" -> {k \in {"title"} : f[k] = ""}
                          \cup {k \in {"image"} : f[k] = NoFile}
      [] p = "certificates" -> {k \in {"title"} : f[k] = ""}
      [] p = "career" -> {k \in {"workplace", "position", "startDate"} : f[k] = ""}
      [] OTHER -> {k \in {"title", "description"} : f[k] = ""}
                  \cup {k \in {"url"} : ~IsUrl(f[k])}
                  \cup {k \in {"embedType"} : f[k] \notin {"embed", "link"}}

\* a schema that takes any order
SchemaErrors_AnyOrder(p, f, editingNow) ==
    CASE p = "skills" -> {k \in {"name", "icon"} : f[k] = ""}
      [] p = "courses" -> {k \in {"name", "description"} : f[k] = ""}
      [] p = "gallery" -> {k \in {"title"} : f[k] = ""}
                          \cup {k \in {"image"} : editingNow = NoItem /\ f[k] = NoFile}
      [] p = "certificates" -> {k \in {"title"} : f[k] = ""}
      [] p = "career" -> {k \in {"workplace", "position", "startDate"} : f[k] = ""}
      [] OTHER -> {k \in {"title", "description"} : f[k] = ""}
                  \cup {k \in {"url"} : ~IsUrl(f[k])}
                  \cup {k \in {"embedType"} : f[k] \notin {"embed", "link"}}

\* the fields that the zod schema of the page rejects: skillSchema, courseSchema,
\* addGallerySchema or editGallerySchema, certificateSchema, careerSchema, videoSchema
SchemaErrors(p, f, editingNow) ==
    CASE p = "skills" -> {k \in {"name", "icon"} : f[k] = ""}
                         \cup {k \in {"order"} : f[k].nan \/ f[k].v < 0}
      [] p = "courses" -> {k \in {"name", "description"} : f[k] = ""}
      [] p = "gallery" -> {k \in {"title"} : f[k] = ""}
                          \cup {k \in {"image"} : editingNow = NoItem /\ f[k] = NoFile}
      [] p = "certificates" -> {k \in {"title"} : f[k] = ""}
      [] p = "career" -> {k \in {"workplace", "position", "startDate"} : f[k] = ""}
      [] OTHER -> {k \in {"title", "description"} : f[k] = ""}
                  \cup {k \in {"url"} : ~IsUrl(f[k])}
                  \cup {k \in {"embedType"} : f[k] \notin {"embed", "link"}}

\* a field that JSON.stringify leaves out because its value is undefined
Omitted == "(omitted)"

\* a body that carries the form as it is
SaveBody_AsEntered(p, f) == f

\* the body of the request that onSubmit builds from the validated form
SaveBody(p, f) ==
    IF p = "career"
    THEN [f EXCEPT !.endDate = IF f.isCurrent THEN Omitted ELSE f.endDate]
    ELSE f

\* the form after the effects that follow a render in which it changed from f to g:
\* CareerManager clears endDate when isCurrent has become true (part_002 lines 56-60)
AfterEffects(p, f, g) ==
    IF p = "career" /\ g.isCurrent /\ ~f.isCurrent THEN [g EXCEPT !.endDate = ""] ELSE g

\* the user can make g of the form f: the endDate input of CareerManager is disabled
\* while isCurrent is checked (part_002 line 338)
CanEnter(p, f, g) ==
    (p = "career" /\ f.isCurrent /\ g.isCurrent) => g.endDate = f.endDate

\* a save that always goes to the collection URL
SaveTarget_ToCollection(p, ed, editMode) ==
    [method |-> IF ed # NoItem THEN "PUT" ELSE "POST",
     url |-> [collection |-> p, id |-> NoId]]

\* the method and URL that onSubmit picks
SaveTarget(p, ed, editMode) ==
    CASE p = "gallery" ->
           IF ed # NoItem
           THEN [method |-> "PUT", url |-> [collection |-> p, id |-> ed._id]]
           ELSE [method |-> "POST", url |-> [collection |-> p, id |-> NoId]]
      [] p = "certificates" ->
           [method |-> IF editMode THEN "PUT" ELSE "POST",
            url |-> [collection |-> p,
                     id |-> IF editMode /\ ed # NoItem THEN ed._id ELSE NoId]]
      [] OTHER ->
           IF ed # NoItem /\ ed._id # UndefinedId
           THEN [method |-> "PUT", url |-> [collection |-> p, id |-> ed._id]]
           ELSE [method |-> "POST", url |-> [collection |-> p, id |-> NoId]]

\* where the server keeps the image of item id: the upload of the request, or else
\* the image the item had
ImageUrl(id, body, old) ==
    IF body.image # NoFile THEN "/img/" \o ToString(id)
    ELSE IF old = NoItem THEN ""
    ELSE old.imageUrl

\* the item that the server stores for a body, old being the item it replaces
StoredItem(p, id, body, old) ==
    CASE p = "skills" ->
           [_id |-> id, name |-> body.name, icon |-> body.icon, order |-> body.order]
      [] p = "courses" -> [_id |-> id, name |-> body.name, description |-> body.description]
      [] p = "gallery" ->
           [_id |-> id, title |-> body.title,
            imageUrl |-> ImageUrl(id, body, old)]
      [] p = "certificates" ->
           [_id |-> id, title |-> body.title, date |-> body.date,
            imageUrl |-> ImageUrl(id, body, old)]
      [] p = "career" ->
           [_id |-> id, workplace |-> body.workplace, position |-> body.position,
            startDate |-> body.startDate,
            endDate |-> IF body.endDate # Omitted THEN body.endDate
                        ELSE IF old = NoItem THEN ""
                        ELSE old.endDate,
            isCurrent |-> body.isCurrent]
      [] OTHER ->
           [_id |-> id, title |-> body.title, description |-> body.description,
            url |-> body.url, embedType |-> body.embedType]

\* the item that each collection holds when the page is opened
FirstItem(p) ==
    CASE p = "skills" -> [_id |-> 1, name |-> "Go", icon |-> "FaReact", order |-> Num(1)]
      [] p = "courses" -> [_id |-> 1, name |-> "TS", description |-> "intro"]
      [] p = "gallery" -> [_id |-> 1, title |-> "Cup", imageUrl |-> "/img/1"]
      [] p = "certificates" ->
           [_id |-> 1, title |-> "Barista", date |-> "2024-01-15", imageUrl |-> "/img/1"]
      [] p = "career" ->
           [_id |-> 1, workplace |-> "Acme", position |-> "Dev",
            startDate |-> "2022-01-15", endDate |-> "2022-12-15", isCurrent |-> FALSE]
      [] OTHER ->
           [_id |-> 1, title |-> "Latte", description |-> "art", url |-> "https://v.co/1",
            embedType |-> "link"]

\* the form after a click on Edit: reset(item) in the skills, courses, career and
\* videos managers, setValue('title', ...) in the effect of the gallery manager,
\* reset({title, date, image: undefined}) in editCertificate
EditedForm(p, item, f) ==
    CASE p = "skills" -> [name |-> item.name, icon |-> item.icon, order |-> item.order]
      [] p = "courses" -> [name |-> item.name, description |-> item.description]
      [] p = "gallery" -> [f EXCEPT !.title = item.title]
      [] p = "certificates" -> [title |-> item.title, date |-> item.date, image |-> NoFile]
      [] p = "career" ->
           [workplace |-> item.workplace, position |-> item.position,
            startDate |-> item.startDate, endDate |-> item.endDate,
            isCurrent |-> item.isCurrent]
      [] OTHER ->
           [title |-> item.title, description |-> item.description, url |-> item.url,
            embedType |-> item.embedType]

\* new Date(startDate).getTime(), as far as the order of the dates used goes
StartTime(item) ==
    CASE item.startDate = "2022-01-15" -> 2022
      [] item.startDate = "2023-01-15" -> 2023
      [] OTHER -> 0

\* fetchCareer: data.sort((a, b) => getTime(b.startDate) - getTime(a.startDate))
RECURSIVE InsertByStartDate(_, _)
InsertByStartDate(item, sorted) ==
    IF sorted = <<>> THEN <<item>>
    ELSE IF StartTime(Head(sorted)) - StartTime(item) >= 0
         THEN <<Head(sorted)>> \o InsertByStartDate(item, Tail(sorted))
         ELSE <<item>> \o sorted

\* a fetchCareer that keeps the order of the response
SortByStartDate_AsReceived(data) == data

RECURSIVE SortByStartDate(_)
SortByStartDate(data) ==
    IF data = <<>> THEN <<>>
    ELSE InsertByStartDate(Head(data), SortByStartDate(Tail(data)))

\* the list that GET /api/<collection> returns: the stored items by id
RECURSIVE Listing(_, _)
Listing(store, from) ==
    IF from > MaxItems THEN <<>>
    ELSE (IF store[from] # NoItem THEN <<store[from]>> ELSE <<>>)
         \o Listing(store, from + 1)

\* Swal: no dialog, the confirm dialog of a delete, a success and an error dialog
NoDialog == [icon |-> "none", about |-> "none", id |-> NoId]
ConfirmDialog(id) == [icon |-> "warning", about |-> "delete", id |-> id]
SuccessDialog(about) == [icon |-> "success", about |-> about, id |-> NoId]
ErrorDialog(about) == [icon |-> "error", about |-> about, id |-> NoId]

\* the GET of the list in flight: served tells that the server has built the response
\* and data is that response; overtaken records that a fetch issued later has already
\* shown its response
FetchRequest(p) ==
    [kind |-> "fetch", method |-> "GET", url |-> [collection |-> p, id |-> NoId],
     body |-> <<>>, served |-> FALSE, data |-> <<>>, overtaken |-> FALSE]

InitManager(p) ==
    /\ items = <<>>
    /\ editing = NoItem
    /\ isEditMode = FALSE
    /\ form = BlankForm(p)
    /\ formDefaults = BlankForm(p)
    /\ errors = {}
    /\ submitting = FALSE
    /\ isLoading = (p \in LoadingPages)
    /\ swal = NoDialog
    \* the mount effect has called the fetch of the list
    /\ ops = <<FetchRequest(p)>>
    /\ db = [id \in ItemIds |-> IF id = 1 THEN FirstItem(p) ELSE NoItem]

ManagersUnmounted ==
    /\ items = <<>>
    /\ editing = NoItem
    /\ isEditMode = FALSE
    /\ form = <<>>
    /\ formDefaults = <<>>
    /\ errors = {}
    /\ submitting = FALSE
    /\ isLoading = FALSE
    /\ swal = NoDialog
    /\ ops = <<>>
    /\ db = [id \in ItemIds |-> NoItem]

\* the page is rendered (not the spinner of the skills and courses managers) and no
\* dialog covers it
ManagerUsable == page \in ManagerPages /\ ~isLoading /\ swal = NoDialog

\* the user fills the form of page p in
setForm(p, v) ==
    /\ page = p
    /\ ManagerUsable
    /\ v # form
    /\ CanEnter(page, form, v)
    /\ form' = AfterEffects(page, form, v)
    /\ form' # form
    \* an error goes when its field has become valid
    /\ errors' = errors \cap SchemaErrors(page, form', editing)
    /\ UNCHANGED <<page, items, editing, isEditMode, formDefaults, submitting, isLoading,
                   swal, ops, db, notManagers>>

\* the submit button: handleSubmit(onSubmit) validates the form with the resolver and,
\* when it is valid, onSubmit runs up to its await of the POST or PUT
onSubmit(limit) ==
    /\ ManagerUsable
    /\ ~submitting
    /\ BrowserAccepts(page, form)
    /\ IF SchemaErrors(page, form, editing) # {}
       THEN /\ errors' = SchemaErrors(page, form, editing)
            /\ UNCHANGED <<submitting, ops>>
       ELSE /\ Len(ops) < limit
            /\ errors' = {}
            /\ submitting' = TRUE
            /\ ops' = Append(ops, [kind |-> "save",
                                   method |-> SaveTarget(page, editing, isEditMode).method,
                                   url |-> SaveTarget(page, editing, isEditMode).url,
                                   body |-> SaveBody(page, form)])
    /\ UNCHANGED <<page, items, editing, isEditMode, form, formDefaults, isLoading, swal,
                   db, notManagers>>

\* the Edit button of item i of the list
editItem(i) ==
    /\ ManagerUsable
    /\ i \in DOMAIN items
    /\ editing' = items[i]
    /\ isEditMode' = (page = "certificates")
    /\ form' = AfterEffects(page, form, EditedForm(page, items[i], form))
    \* reset(values) makes values the default values; setValue does not
    /\ formDefaults' = IF page = "gallery" THEN formDefaults
                       ELSE EditedForm(page, items[i], form)
    /\ errors' = IF page = "gallery" THEN errors ELSE {}
    /\ submitting' = IF page \in FormStatePages THEN FALSE ELSE submitting
    /\ UNCHANGED <<page, items, isLoading, swal, ops, db, notManagers>>

\* the Cancel button, rendered while an item is being edited
cancelEdit ==
    /\ ManagerUsable
    /\ IF page = "certificates" THEN isEditMode ELSE editing # NoItem
    /\ editing' = NoItem
    /\ isEditMode' = FALSE
    \* cancelEdit of the certificates manager resets to empty values, the others call
    \* reset()
    /\ formDefaults' = IF page = "certificates" THEN BlankForm(page) ELSE formDefaults
    /\ form' = AfterEffects(page, form, formDefaults')
    /\ errors' = {}
    /\ submitting' = IF page \in FormStatePages THEN FALSE ELSE submitting
    /\ UNCHANGED <<page, items, isLoading, swal, ops, db, notManagers>>

\* a Delete button that sends the DELETE at once
deleteItem_Unconfirmed(i) ==
    /\ ManagerUsable
    /\ i \in DOMAIN items
    /\ Len(ops) < MaxInFlight
    /\ ops' = Append(ops, [kind |-> "delete", method |-> "DELETE",
                           url |-> [collection |-> page, id |-> items[i]._id],
                           body |-> <<>>])
    /\ UNCHANGED <<page, items, editing, isEditMode, form, formDefaults, errors,
                   submitting, isLoading, swal, db, notManagers>>

\* the Delete button of item i: deleteSkill, deleteCourse, deleteImage,
\* deleteCertificate, deleteCareerItem, deleteVideo up to the await of the dialog
deleteItem(i) ==
    /\ ManagerUsable
    /\ i \in DOMAIN items
    /\ items[i]._id # UndefinedId
    /\ swal' = ConfirmDialog(items[i]._id)
    /\ UNCHANGED <<page, items, editing, isEditMode, form, formDefaults, errors,
                   submitting, isLoading, ops, db, notManagers>>

\* 'Yes, delete it!': the handler runs on up to its await of the DELETE
confirmDelete(limit) ==
    /\ page \in ManagerPages
    /\ swal.icon = "warning"
    /\ Len(ops) < limit
    /\ swal' = NoDialog
    /\ ops' = Append(ops, [kind |-> "delete", method |-> "DELETE",
                           url |-> [collection |-> page, id |-> swal.id],
                           body |-> <<>>])
    /\ UNCHANGED <<page, items, editing, isEditMode, form, formDefaults, errors,
                   submitting, isLoading, db, notManagers>>

\* Cancel, Escape or a click outside the dialog: the handler returns
declineDelete ==
    /\ page \in ManagerPages
    /\ swal.icon = "warning"
    /\ swal' = NoDialog
    /\ UNCHANGED <<page, items, editing, isEditMode, form, formDefaults, errors,
                   submitting, isLoading, ops, db, notManagers>>

\* a success or error dialog is closed, by the user or by its timer
closeSwal ==
    /\ page \in ManagerPages
    /\ swal.icon \in {"success", "error"}
    /\ swal' = NoDialog
    /\ UNCHANGED <<page, items, editing, isEditMode, form, formDefaults, errors,
                   submitting, isLoading, ops, db, notManagers>>

Responses == {"ok", "notOk", "throws"}

FreeIds == {id \in ItemIds : db[id] = NoItem}

\* the server can answer the request with an ok response
CanBeOk(req) ==
    CASE req.method = "POST" -> req.url.id = NoId /\ FreeIds # {}
      [] req.method \in {"PUT", "DELETE"} ->
           req.url.id \in ItemIds /\ db[req.url.id] # NoItem
      [] OTHER -> TRUE

\* the collection after the server has carried the request out
Served(req) ==
    CASE req.method = "POST" ->
           LET id == CHOOSE k \in FreeIds : \A j \in FreeIds : k <= j
           IN [db EXCEPT ![id] = StoredItem(req.url.collection, id, req.body, NoItem)]
      [] req.method = "PUT" ->
           [db EXCEPT ![req.url.id] =
                StoredItem(req.url.collection, req.url.id, req.body, db[req.url.id])]
      [] req.method = "DELETE" -> [db EXCEPT ![req.url.id] = NoItem]
      [] OTHER -> db

\* the handler calls the fetch of the list without awaiting it: the request of the
\* handler is replaced by the GET
Refetch(i) ==
    /\ ops' = Append(Remove(ops, i), FetchRequest(page))
    /\ isLoading' = (page \in LoadingPages)

\* the POST or PUT of onSubmit is answered and onSubmit runs to its end
SaveResponds(i, resp) ==
    /\ page \in ManagerPages
    /\ i \in DOMAIN ops
    /\ ops[i].kind = "save"
    /\ resp \in Responses
    /\ resp = "ok" => CanBeOk(ops[i])
    /\ submitting' = FALSE
    /\ IF resp = "ok"
       THEN /\ db' = Served(ops[i])
            /\ swal' = SuccessDialog("save")
            /\ form' = AfterEffects(page, form, formDefaults)
            /\ errors' = {}
            /\ editing' = NoItem
            /\ isEditMode' = FALSE
            /\ Refetch(i)
       ELSE /\ swal' = ErrorDialog("save")
            /\ ops' = Remove(ops, i)
            /\ UNCHANGED <<db, form, errors, editing, isEditMode, isLoading>>
    /\ UNCHANGED <<page, items, formDefaults, notManagers>>

\* the DELETE is answered and the delete handler runs to its end
DeleteResponds(i, resp) ==
    /\ page \in ManagerPages
    /\ i \in DOMAIN ops
    /\ ops[i].kind = "delete"
    /\ resp \in Responses
    /\ resp = "ok" => CanBeOk(ops[i])
    /\ IF resp = "ok"
       THEN /\ db' = Served(ops[i])
            /\ swal' = SuccessDialog("delete")
            /\ Refetch(i)
       ELSE /\ swal' = ErrorDialog("delete")
            /\ ops' = Remove(ops, i)
            /\ UNCHANGED <<db, isLoading>>
    /\ UNCHANGED <<page, items, editing, isEditMode, form, formDefaults, errors,
                   submitting, notManagers>>

\* the server builds the response to the GET of the list while the response is yet to
\* reach the page
ListServed(i) ==
    /\ page \in ManagerPages
    /\ i \in DOMAIN ops
    /\ ops[i].kind = "fetch"
    /\ ~ops[i].served
    /\ ops' = [ops EXCEPT ![i].served = TRUE, ![i].data = Listing(db, 1)]
    /\ UNCHANGED <<page, items, editing, isEditMode, form, formDefaults, errors,
                   submitting, isLoading, swal, db, notManagers>>

\* the requests in flight once fetch i has shown its response: the fetches issued
\* before it are overtaken
Overtaking(requests, i) ==
    [j \in DOMAIN requests |->
        IF j < i /\ requests[j].kind = "fetch"
        THEN [requests[j] EXCEPT !.overtaken = TRUE]
        ELSE requests[j]]

\* the GET of the list is answered, with the response the server has built or builds
\* now, and the fetch function runs to its end
ListResponds(i, resp) ==
    /\ page \in ManagerPages
    /\ i \in DOMAIN ops
    /\ ops[i].kind = "fetch"
    /\ resp \in Responses
    /\ LET data == IF ops[i].served THEN ops[i].data ELSE Listing(db, 1)
       IN items' = IF resp # "ok" THEN items
                   ELSE IF page = "career" THEN SortByStartDate(data)
                   ELSE data
    /\ swal' = IF resp = "ok" THEN swal ELSE ErrorDialog("fetch")
    /\ isLoading' = FALSE
    /\ ops' = Remove(IF resp = "ok" THEN Overtaking(ops, i) ELSE ops, i)
    /\ UNCHANGED <<page, editing, isEditMode, form, formDefaults, errors, submitting, db,
                   notManagers>>

\* a step of a manager, the user filling the form of page p with one of inputs[p] and
\* letting at most limit requests run at once
ManagerStep(inputs, limit) ==
    \/ \E p \in ManagerPages : \E v \in inputs[p] : setForm(p, v)
    \/ onSubmit(limit)
    \/ \E i \in ItemIds : editItem(i)
    \/ cancelEdit
    \/ \E i \in ItemIds : deleteItem(i)
    \/ confirmDelete(limit)
    \/ declineDelete
    \/ closeSwal
    \/ \E i \in 1..limit, resp \in Responses : SaveResponds(i, resp)
    \/ \E i \in 1..limit, resp \in Responses : DeleteResponds(i, resp)
    \/ \E i \in 1..limit, resp \in Responses : ListResponds(i, resp)

NextManagers == ManagerStep([p \in ManagerPages |-> FormInputs(p)], MaxInFlight)

\* requests of one page in flight at once when fetches of the list overlap
MaxOverlap == 2

\* the form filled in with values that the schema accepts
ValidInputs(p) == {v \in FormInputs(p) : SchemaErrors(p, v, NoItem) = {}}

\* a manager with overlapping requests, the responses reaching the page later than the
\* server builds them
NextOverlap ==
    \/ ManagerStep([p \in ManagerPages |-> ValidInputs(p)], MaxOverlap)
    \/ \E i \in 1..MaxOverlap : ListServed(i)

\* the career manager with every filling of the end date and the checkbox
NextCareer == ManagerStep([p \in ManagerPages |-> CareerInputs(p)], MaxInFlight)

(***************************************************************************)
(* The managers and the messages page: properties                          *)
(***************************************************************************)
\* the requests of a kind among those in flight
OfKind(requests, kinds) == SelectSeq(requests, LAMBDA r : r.kind \in kinds)

\* the request that this step has sent, when it has sent one of the kinds
Sent(kinds) == OfKind(ops', kinds)[Len(OfKind(ops', kinds))]

Sends(kinds) == Len(OfKind(ops', kinds)) > Len(OfKind(ops, kinds))

\* C1: a DELETE for an id is sent only by the step in which the user confirms the
\* dialog opened for that id; when the user declines, no request is sent and the list,
\* the editing or selection state and the form stay as they are.
C1_DeleteConfirmed ==
    [][/\ Sends({"delete"}) =>
            /\ swal = ConfirmDialog(Sent({"delete"}).url.id)
            /\ swal' = NoDialog
            /\ Sent({"delete"}).method = "DELETE"
            /\ Sent({"delete"}).url.collection = page
       /\ (swal.icon = "warning" /\ swal' = NoDialog /\ ~Sends({"delete"})) =>
            UNCHANGED <<ops, items, editing, isEditMode, form, formDefaults, db>>
       /\ Len(OfKind(msgOps', {"delete"})) > Len(OfKind(msgOps, {"delete"})) =>
            /\ msgConfirm # 0
            /\ msgConfirm' = 0
            /\ msgOps' = Append(msgOps, msgOps'[Len(msgOps')])
            /\ msgOps'[Len(msgOps')].kind = "delete"
            /\ msgOps'[Len(msgOps')].id = msgConfirm
       /\ (msgConfirm # 0 /\ msgConfirm' = 0 /\ Len(msgOps') = Len(msgOps)) =>
            UNCHANGED <<msgOps, messages, filteredMessages, selectedMessage, replyText,
                        msgDb>>
      ]_vars

\* a DELETE is in flight on a manager page for the item whose dialog was confirmed
C1_Witness ==
    /\ page = "gallery"
    /\ Len(ops) = 1
    /\ ops[1].method = "DELETE"
    /\ ops[1].url.id = 1
    /\ swal = NoDialog

\* C2: a create or update request carries form data that satisfies the schema of the
\* page (skill name and icon non-empty and order >= 0; course name and description
\* non-empty; career workplace, position and startDate non-empty; video title and
\* description non-empty, url a valid URL, embedType embed or link; gallery and
\* certificate title non-empty); a submit of data that violates it sends no request and
\* leaves the list and the editing state unchanged.
C2_SchemaValid ==
    [][LET Satisfies(p, d) ==
               CASE p = "skills" ->
                      d.name # "" /\ d.icon # "" /\ ~d.order.nan /\ d.order.v >= 0
                 [] p = "courses" -> d.name # "" /\ d.description # ""
                 [] p = "career" ->
                      d.workplace # "" /\ d.position # "" /\ d.startDate # ""
                 [] p = "videos" ->
                      /\ d.title # "" /\ d.description # ""
                      /\ d.url = "https://v.co/1"
                      /\ d.embedType \in {"embed", "link"}
                 [] OTHER -> d.title # ""
       IN /\ Sends({"save"}) => Satisfies(page, Sent({"save"}).body)
          /\ (onSubmit(MaxInFlight) /\ ~Satisfies(page, form)) =>
               UNCHANGED <<ops, items, editing, isEditMode, db>>
      ]_vars

\* a valid video is being saved
C2_Witness ==
    /\ page = "videos"
    /\ Len(ops) = 1
    /\ ops[1].kind = "save"
    /\ ops[1].body.embedType = "link"

\* an invalid skill was submitted: the error is shown and nothing is in flight
C2_WitnessRejected ==
    /\ page = "skills"
    /\ errors = {"order"}
    /\ form.order = NaN
    /\ ops = <<>>

\* C3: a save sends PUT to /api/<resource>/<id>, id defined, exactly when an item is
\* being edited, and POST to /api/<resource> otherwise.
C3_PutWhenEditing ==
    [][Sends({"save"}) =>
          /\ Sent({"save"}).url.collection = page
          /\ IF editing # NoItem
             THEN /\ Sent({"save"}).method = "PUT"
                  /\ Sent({"save"}).url.id \in ItemIds
                  /\ Sent({"save"}).url.id = editing._id
             ELSE /\ Sent({"save"}).method = "POST"
                  /\ Sent({"save"}).url.id = NoId
      ]_vars

\* a certificate under edit is being saved with PUT /api/certificates/1
C3_Witness ==
    /\ page = "certificates"
    /\ Len(ops) = 1
    /\ ops[1].method = "PUT"
    /\ ops[1].url.id = 1
    /\ editing # NoItem

\* C4: every create, update, delete, mark-as-read or reply request that completes
\* ends with a success or an error dialog or notification shown, whether the response
\* is ok, is not ok or the fetch throws.
C4_FeedbackShown ==
    [][LET Feedback(kind) ==
               CASE kind = "markAsRead" ->
                      {Notify("success", "Message marked as read"),
                       Notify("error", "Failed to mark as read")}
                 [] kind = "reply" ->
                      {Notify("success", "Reply sent successfully!"),
                       Notify("error", "Failed to send reply")}
                 [] OTHER ->
                      {Notify("success", "Message deleted successfully"),
                       Notify("error", "Failed to delete message")}
       IN /\ \A kind \in {"save", "delete"} :
               Len(OfKind(ops', {kind})) < Len(OfKind(ops, {kind})) =>
                  swal' \in {SuccessDialog(kind), ErrorDialog(kind)}
          /\ \A i \in DOMAIN msgOps :
               (msgOps' = Remove(msgOps, i) /\ msgOps[i].kind # "fetch") =>
                  msgNotification' \in Feedback(msgOps[i].kind)
      ]_vars

\* C11: the career list is ordered by startDate, newest first, and the messages list
\* and filteredMessages by createdAt, newest first, in every state; only a step that
\* ends a fetch of the list changes the career list or the messages list.
C11_NewestFirst ==
    /\ [](/\ page = "career" =>
               \A i, j \in DOMAIN items :
                  i < j => StartTime(items[i]) >= StartTime(items[j])
          /\ \A i, j \in DOMAIN messages :
                i < j => messages[i].createdAt >= messages[j].createdAt
          /\ \A i, j \in DOMAIN filteredMessages :
                i < j => filteredMessages[i].createdAt >= filteredMessages[j].createdAt)
    /\ [][/\ items' # items =>
               /\ Len(OfKind(ops', {"fetch"})) = Len(OfKind(ops, {"fetch"})) - 1
               /\ Len(ops') = Len(ops) - 1
          /\ messages' # messages =>
               \E i \in DOMAIN msgOps : msgOps[i].stage = "get" /\ msgOps' = Remove(msgOps, i)
         ]_vars

\* the career list holds the item created on this page before the older item that the
\* server lists first
C11_Witness ==
    /\ page = "career"
    /\ Len(items) = 2
    /\ items[1]._id = 2
    /\ items[1].startDate = "2023-01-15"
    /\ items[2]._id = 1
    /\ items[2].startDate = "2022-01-15"

\* the messages list holds both messages, the later one first
C11_WitnessMessages ==
    /\ page = "messages"
    /\ Len(messages) = 2
    /\ messages[1].createdAt > messages[2].createdAt
    /\ filteredMessages = messages

\* C12: in the career form a step that makes isCurrent true leaves endDate empty; a
\* career save with isCurrent true carries no endDate, and one with isCurrent false
\* carries the endDate of the form.
C12_CurrentHasNoEndDate ==
    [][page = "career" =>
          /\ (~form.isCurrent /\ form'.isCurrent) => form'.endDate = ""
          /\ Sends({"save"}) =>
               /\ Sent({"save"}).body.isCurrent = form.isCurrent
               /\ Sent({"save"}).body.endDate =
                     IF form.isCurrent THEN Omitted ELSE form.endDate
      ]_vars

\* a current job whose form still shows the end date of the item under edit is being
\* saved without endDate
C12_Witness ==
    /\ page = "career"
    /\ Len(ops) = 1
    /\ ops[1].kind = "save"
    /\ form.isCurrent
    /\ form.endDate = "2022-12-15"
    /\ ops[1].body.endDate = Omitted

\* a past job is being saved with the end date entered
C12_WitnessPast ==
    /\ page = "career"
    /\ Len(ops) = 1
    /\ ops[1].kind = "save"
    /\ ~ops[1].body.isCurrent
    /\ ops[1].body.endDate = "2023-06-15"

\* C13: in the gallery manager a POST is sent only with a file selected, and a submit
\* in add mode without a file sends nothing and reports the image; a submit in edit
\* mode with a title and no file sends a PUT whose body has the title and no image.
C13_GalleryImage ==
    [][page = "gallery" =>
          /\ (Sends({"save"}) /\ Sent({"save"}).method = "POST") =>
               /\ editing = NoItem
               /\ form.image # NoFile
               /\ Sent({"save"}).body.image = form.image
          /\ (onSubmit(MaxInFlight) /\ editing = NoItem /\ form.image = NoFile) =>
               /\ ~Sends({"save"})
               /\ "image" \in errors'
          /\ (onSubmit(MaxInFlight) /\ editing # NoItem /\ form.image = NoFile
                 /\ form.title # "") =>
               /\ Sends({"save"})
               /\ Sent({"save"}).method = "PUT"
               /\ Sent({"save"}).body.title = form.title
               /\ Sent({"save"}).body.image = NoFile
      ]_vars

\* a gallery item under edit is being saved with no file selected
C13_Witness ==
    /\ page = "gallery"
    /\ editing # NoItem
    /\ Len(ops) = 1
    /\ ops[1].method = "PUT"
    /\ ops[1].body.image = NoFile

\* right after Cancel, in add mode again, a submit without a file was rejected
C13_WitnessAddAfterEdit ==
    /\ page = "gallery"
    /\ editing = NoItem
    /\ errors = {"image"}
    /\ items # <<>>
    /\ ops = <<>>

\* C14: in the certificates manager a POST is sent only in add mode and only with an
\* image file selected; a submit in edit mode with a title and no file sends a PUT
\* whose body has no image.
C14_CertificateImage ==
    [][page = "certificates" =>
          /\ (Sends({"save"}) /\ Sent({"save"}).method = "POST") =>
               /\ ~isEditMode
               /\ Sent({"save"}).body.image # NoFile
          /\ (onSubmit(MaxInFlight) /\ isEditMode /\ form.image = NoFile
                 /\ form.title # "") =>
               /\ Sends({"save"})
               /\ Sent({"save"}).method = "PUT"
               /\ Sent({"save"}).body.image = NoFile
      ]_vars

\* C15: the strength indicator is shown exactly when newPassword is non-empty; it says
\* 'Weak password' in red for 1..5 characters, 'Medium strength' in yellow for 6 or 7
\* and 'Strong password' in green from 8 on; the width of the bar is
\* min(length * 100 / 12, 100) percent, at most 100, and no shorter password has a
\* wider bar.
C15_PasswordStrength ==
    LET n == Len(formData.newPassword)
        shown == StrengthIndicator(formData.newPassword)
    IN /\ shown.shown <=> n > 0
       /\ n \in 1..5 => shown.label = "Weak password" /\ shown.colour = "bg-red-500"
       /\ n \in 6..7 => shown.label = "Medium strength" /\ shown.colour = "bg-yellow-500"
       /\ n >= 8 => shown.label = "Strong password" /\ shown.colour = "bg-green-500"
       /\ n > 0 =>
            /\ n * 100 <= 12 * 100 => shown.width = n * 100
            /\ n * 100 >= 12 * 100 => shown.width = 12 * 100
            /\ shown.width <= 12 * 100
            /\ \A m \in 1..n : StrengthIndicator(Run("a", m)).width <= shown.width

\* a new password longer than the full bar: strong, and the bar at 100 percent
C15_Witness ==
    /\ page = "settings"
    /\ Len(formData.newPassword) = 13
    /\ StrengthIndicator(formData.newPassword).width = 1200
    /\ StrengthIndicator(formData.newPassword).label = "Strong password"

\* C16: when a save ends with an ok response, no item is being edited any more, the
\* form is empty again as it was when the page was opened, and exactly one fetch of
\* the list has been issued; when it ends with a response that is not ok or with a
\* thrown error, the editing state and the values of the form are as before and no
\* fetch has been issued.
C16_SaveEffects ==
    [][Len(OfKind(ops', {"save"})) < Len(OfKind(ops, {"save"})) =>
          /\ swal' = SuccessDialog("save") =>
               /\ editing' = NoItem
               /\ isEditMode' = FALSE
               /\ form' = BlankForm(page)
               /\ Len(OfKind(ops', {"fetch"})) = Len(OfKind(ops, {"fetch"})) + 1
          /\ swal' # SuccessDialog("save") =>
               /\ swal' = ErrorDialog("save")
               /\ UNCHANGED <<editing, isEditMode, form>>
               /\ Len(OfKind(ops', {"fetch"})) = Len(OfKind(ops, {"fetch"}))
      ]_vars

\* C17: the response to a fetch of the list that reaches the page after the response
\* to a fetch issued later has been shown does not change the list displayed.
C17_LastFetchWins ==
    [][\A i \in DOMAIN ops :
          (/\ ops[i].kind = "fetch"
           /\ ops[i].overtaken
           /\ ops' \in {Remove(ops, i), Remove(Overtaking(ops, i), i)}) =>
             items' = items
      ]_vars

\* C18: in every manager the item being edited is an item of the list displayed, and
\* a PUT is sent only for an id that the collection still holds.
C18_EditingInList ==
    /\ [](editing # NoItem => \E i \in DOMAIN items : items[i]._id = editing._id)
    /\ [][(Sends({"save"}) /\ Sent({"save"}).method = "PUT") =>
             /\ Sent({"save"}).url.id \in ItemIds
             /\ db[Sent({"save"}).url.id] # NoItem
         ]_vars

\* C19: on every form page at most one save request is in flight: one POST or PUT
\* of a manager's form, one PUT of the settings, one reply to a message.
C19_OneSaveInFlight ==
    /\ Len(OfKind(ops, {"save"})) <= 1
    /\ Len(settingsRequests) <= 1
    /\ Len(OfKind(msgOps, {"reply"})) <= 1

\* C20: a busy flag is true exactly while its operation runs: loading of the settings
\* while handleSubmit runs, isLoading of the skills and courses managers while a fetch
\* of the list is in flight, uploading and isSubmitting of the other managers while a
\* save is in flight, loading of the messages page while a fetch of the messages is in
\* flight and sendingReply while a reply runs.
C20_BusyWhileInFlight ==
    /\ page = "settings" =>
         /\ loading <=> settingsTask # NoTask
         /\ settingsRequests # <<>> => loading
    /\ page \in LoadingPages => (isLoading <=> OfKind(ops, {"fetch"}) # <<>>)
    /\ page \in ManagerPages \ FormStatePages =>
         (submitting <=> OfKind(ops, {"save"}) # <<>>)
    /\ page = "messages" =>
         /\ msgLoading <=> \E i \in DOMAIN msgOps : msgOps[i].stage = "get"
         /\ sendingReply <=> OfKind(msgOps, {"reply"}) # <<>>

\* the second half of C20: when every request is answered in the end, a manager that
\* shows its spinner or has its submit button disabled leaves that state in the end
C20_EventuallyIdle ==
    /\ isLoading ~> ~isLoading
    /\ submitting ~> ~submitting

\* C21: a reply is sent only when a message is selected, its status is not 'replied'
\* and replyText has a character that is not a blank; the request carries the id of
\* the selected message and replyText as typed. When handleSendReply ends after an ok
\* response, replyText is empty and no message is selected; when it ends after a
\* response that is not ok or a thrown error, replyText and selectedMessage are as
\* before.
C21_Reply ==
    [][/\ Len(OfKind(msgOps', {"reply"})) > Len(OfKind(msgOps, {"reply"})) =>
            /\ selectedMessage # NoMessage
            /\ selectedMessage.status # "replied"
            /\ \E k \in DOMAIN replyText : replyText[k] # " "
            /\ msgOps' = Append(msgOps, msgOps'[Len(msgOps')])
            /\ msgOps'[Len(msgOps')].kind = "reply"
            /\ msgOps'[Len(msgOps')].stage = "put"
            /\ msgOps'[Len(msgOps')].id = selectedMessage._id
            /\ msgOps'[Len(msgOps')].reply = replyText
       /\ \A i \in DOMAIN msgOps :
            (msgOps[i].kind = "reply" /\ msgOps' = Remove(msgOps, i)) =>
               IF msgOps[i].stage = "get"
               THEN replyText' = <<>> /\ selectedMessage' = NoMessage
               ELSE UNCHANGED <<replyText, selectedMessage>>
      ]_vars

\* a reply that starts with a blank is in flight as typed for the selected message
C21_Witness ==
    /\ page = "messages"
    /\ Len(msgOps) = 1
    /\ msgOps[1].kind = "reply"
    /\ msgOps[1].stage = "put"
    /\ msgOps[1].reply = <<" ", "o">>
    /\ msgOps[1].id = selectedMessage._id
    /\ selectedMessage.status = "read"

\* a reply has been sent and answered ok: the form is empty and the modal is closed
C21_WitnessReplied ==
    /\ page = "messages"
    /\ msgOps = <<>>
    /\ \E id \in MsgIds : msgDb[id] = "replied"
    /\ msgNotification = Notify("success", "Reply sent successfully!")
    /\ replyText = <<>>
    /\ selectedMessage = NoMessage

\* a reply was answered with an error: the text and the selection are still there
C21_WitnessFailed ==
    /\ page = "messages"
    /\ msgOps = <<>>
    /\ msgNotification = Notify("error", "Failed to send reply")
    /\ replyText = <<" ", "o">>
    /\ selectedMessage # NoMessage

\* the texts of a duration: 'Less than 1 month', or years from 1 and / or months in
\* 1..11
DurationTexts ==
    LET Years == {ToString(y) \o suffix : y \in 1..(YearSpan + 1), suffix \in {" yr", " yrs"}}
        Months == {ToString(m) \o suffix : m \in 1..11, suffix \in {" mo", " mos"}}
    IN {"Less than 1 month"} \cup Years \cup Months
          \cup {y \o " " \o m : y \in Years, m \in Months}

\* C22: for every career item the form accepts, the item that is not current and has
\* no end date and the item whose end date is before its start date included, the
\* text of calculateDuration is 'Less than 1 month' or a years / months text with
\* years at least 1 and months in 1..11, never an empty or not-a-number text.
C22_DurationText ==
    durationText # NotRendered => durationText \in DurationTexts

(***************************************************************************)
(* The application                                                         *)
(***************************************************************************)
Pages == {"settings", "messages"} \cup ManagerPages

Init ==
    /\ page \in Pages
    /\ IF page = "settings" THEN InitSettings ELSE SettingsUnmounted
    /\ IF page = "messages" THEN InitMessages ELSE MessagesUnmounted
    /\ IF page \in ManagerPages THEN InitManager(page) ELSE ManagersUnmounted
    /\ DurationUnmounted

Next ==
    \/ NextSettings
    \/ NextMessages
    \/ NextManagers

Spec == Init /\ [][Next]_vars

\* one page at a time
InitSettingsPage ==
    /\ page = "settings"
    /\ InitSettings
    /\ DurationUnmounted
    /\ MessagesUnmounted
    /\ ManagersUnmounted

SpecSettings == InitSettingsPage /\ [][NextSettings]_vars

SpecTyping == InitSettingsPage /\ [][NextTyping]_vars

InitDurationPage ==
    /\ page = "careerTimeline"
    /\ InitDuration
    /\ SettingsUnmounted
    /\ MessagesUnmounted
    /\ ManagersUnmounted

SpecDuration == InitDurationPage /\ [][NextDuration]_vars

InitMessagesPage ==
    /\ page = "messages"
    /\ InitMessages
    /\ SettingsUnmounted
    /\ DurationUnmounted
    /\ ManagersUnmounted

SpecMessages == InitMessagesPage /\ [][NextMessages]_vars

SpecMessagesSearch == InitMessagesPage /\ [][NextMessagesSearch]_vars

SpecMessagesReply == InitMessagesPage /\ [][NextMessagesReply]_vars

InitManagerPage ==
    /\ page \in ManagerPages
    /\ InitManager(page)
    /\ SettingsUnmounted
    /\ DurationUnmounted
    /\ MessagesUnmounted

SpecManagers == InitManagerPage /\ [][NextManagers]_vars

InitOverlapPage ==
    /\ page = "skills"
    /\ InitManager(page)
    /\ SettingsUnmounted
    /\ DurationUnmounted
    /\ MessagesUnmounted

SpecOverlap == InitOverlapPage /\ [][NextOverlap]_vars

\* every request in flight is answered in the end
SpecOverlapAnswered ==
    /\ SpecOverlap
    /\ WF_vars(\E i \in 1..MaxOverlap, resp \in Responses : SaveResponds(i, resp))
    /\ WF_vars(\E i \in 1..MaxOverlap, resp \in Responses : DeleteResponds(i, resp))
    /\ WF_vars(\E i \in 1..MaxOverlap, resp \in Responses : ListResponds(i, resp))

InitCareerPage ==
    /\ page = "career"
    /\ InitManager(page)
    /\ SettingsUnmounted
    /\ DurationUnmounted
    /\ MessagesUnmounted

SpecCareer == InitCareerPage /\ [][NextCareer]_vars

====
